---- MODULE Spec2Model ----
(***************************************************************************)
(* The agent loop of kimi-editor.py (main), with the token estimator of    *)
(* utils.py, the stream accumulation and message reconstruction, the tool  *)
(* dispatch, and the context compressor (tools/compression.py, whose       *)
(* source is not available: it is modelled from the specification).        *)
(***************************************************************************)
EXTENDS Integers, Sequences, FiniteSets, TLC

\* ------------------------------------------------------------ constants

\* kimi-editor.py:27 sets 300; the model runs the same loop with a small ceiling.
MAX_ITERATIONS == 10

TOKEN_LIMIT == 200000

COMPRESSION_THRESHOLD == 180000

BACKUP_INTERVAL == 10

\* keep_recent=10 of the two compressing calls (budget check, compress_context tool)
KEEP_RECENT == 10

\* The model endpoint draws its turn from RichScripts while the conversation has
\* at most RichLen messages, and from PlainScripts afterwards.
RichLen == 2

\* Python's None, for string-valued attributes
None == "None"

Truthy(s) == s # None /\ s # ""

\* "openrouter.ai" in base_url: the default base URL (kimi-editor.py:431) is not
OpenRouter == FALSE

\* ------------------------------------------------------------ messages

SystemMessage == [role |-> "system", content |-> "system prompt"]

UserMessage == [role |-> "user", content |-> "task"]

InitialMessages == <<SystemMessage, UserMessage>>

HasToolCalls(m) == "tool_calls" \in DOMAIN m

\* ------------------------------------------------------------ token estimator

\* len(encoding.encode(s)): the tokenizer is abstracted as one token per character
Tokens(s) == Len(s)

RECURSIVE ToolCallsText(_)
ToolCallsText(tcs) ==
    IF tcs = <<>> THEN ""
    ELSE Head(tcs).function.name \o Head(tcs).function.arguments
            \o ToolCallsText(Tail(tcs))

FieldTokens_no_name_token(m, k) ==
    IF k \notin DOMAIN m THEN 0
    ELSE IF k = "tool_calls"
         THEN (IF m[k] = <<>> THEN 0 ELSE Tokens(ToolCallsText(m[k])))
         ELSE IF m[k] = "" THEN 0
         ELSE Tokens(m[k])

\* One pass of `for key, value in message.items()`: nothing for a falsy value, the
\* tokens of the text, one more for the key name
FieldTokens(m, k) ==
    IF k \notin DOMAIN m THEN 0
    ELSE IF k = "tool_calls"
         THEN (IF m[k] = <<>> THEN 0 ELSE Tokens(ToolCallsText(m[k])))
         ELSE IF m[k] = "" THEN 0
         ELSE Tokens(m[k]) + (IF k = "name" THEN 1 ELSE 0)

MessageTokens(m) ==
    4 + FieldTokens(m, "role") + FieldTokens(m, "content") + FieldTokens(m, "name")
      + FieldTokens(m, "tool_calls") + FieldTokens(m, "tool_call_id")
      + FieldTokens(m, "reasoning_content")

RECURSIVE SumMessageTokens(_)
SumMessageTokens(msgs) ==
    IF msgs = <<>> THEN 0
    ELSE MessageTokens(Head(msgs)) + SumMessageTokens(Tail(msgs))

estimate_tokens_with_tiktoken(msgs) == SumMessageTokens(msgs) + 3

\* clean_msg of estimate_token_count: role, name and tool_call_id when present,
\* content and tool_calls when present and non-empty; nothing else
CleanMsg(m) ==
    LET keep == {k \in DOMAIN m :
                    \/ k \in {"role", "name", "tool_call_id"}
                    \/ (k = "content" /\ m[k] # "")
                    \/ (k = "tool_calls" /\ m[k] # <<>>)}
    IN  [k \in keep |-> m[k]]

Serializable(msgs) == [i \in 1..Len(msgs) |-> CleanMsg(msgs[i])]

\* What the remote estimation endpoint can answer
RemoteOk(n) == [kind |-> "ok", total |-> n]

RemoteStatus(code) == [kind |-> "status", code |-> code]

RemoteRequestError == [kind |-> "request_error"]

Returned(v) == [raised |-> FALSE, value |-> v]

Raised == [raised |-> TRUE]

estimate_token_count(msgs, remote) ==
    IF remote.kind = "ok" THEN Returned(remote.total)
    ELSE IF remote.kind = "status"
         THEN (IF remote.code = 405 \/ OpenRouter
               THEN Returned(estimate_tokens_with_tiktoken(Serializable(msgs)))
               ELSE Raised)
         ELSE Returned(estimate_tokens_with_tiktoken(Serializable(msgs)))

\* ------------------------------------------------------------ context compressor

SummaryMessage == [role |-> "user", content |-> "[CONTEXT SUMMARY]"]

\* The retained tail never starts with a tool result: the boundary moves back to
\* the assistant message that issued the call.
RECURSIVE AdjustStart(_, _)
AdjustStart(msgs, i) ==
    IF i > 2 /\ msgs[i].role = "tool" THEN AdjustStart(msgs, i - 1) ELSE i

CompressedMessages(msgs, keep_recent) ==
    LET n == Len(msgs)
        s == AdjustStart(msgs, n - keep_recent + 1)
    IN  <<msgs[1], SummaryMessage>> \o SubSeq(msgs, s, n)

\* Something lies between the system message and the retained tail
CanCompress(msgs, keep_recent) == Len(msgs) > keep_recent + 1

CompressOutcomes == {"ok", "skip", "raise"}

compress_context_impl(msgs, keep_recent, outcome) ==
    IF outcome = "raise" THEN Raised
    ELSE IF outcome = "skip" THEN Returned([success |-> FALSE])
    ELSE IF CanCompress(msgs, keep_recent)
         THEN Returned([message |-> "Context compressed",
                        summary_file |-> "summary.md",
                        compressed_messages |-> CompressedMessages(msgs, keep_recent)])
         ELSE Returned([message |-> "Context compressed",
                        summary_file |-> "summary.md"])

\* ------------------------------------------------------------ stream accumulation

EmptySlot ==
    [id |-> None, type |-> "function", function |-> [name |-> "", arguments |-> ""]]

\* while len(tool_calls_data) <= tc_delta.index: append an empty slot
RECURSIVE Pad(_, _)
Pad(data, index) ==
    IF Len(data) <= index THEN Pad(Append(data, EmptySlot), index) ELSE data

ApplyToolDelta_last(data, d) ==
    LET padded == Pad(data, d.index)
        tc == padded[Len(padded)]
        id1 == IF Truthy(d.id) THEN d.id ELSE tc.id
        name1 == IF Truthy(d.function.name) THEN d.function.name ELSE tc.function.name
        args1 == IF Truthy(d.function.arguments)
                 THEN tc.function.arguments \o d.function.arguments
                 ELSE tc.function.arguments
    IN  [padded EXCEPT ![Len(padded)] =
            [id |-> id1, type |-> "function",
             function |-> [name |-> name1, arguments |-> args1]]]

\* tc = tool_calls_data[tc_delta.index], then the id, the name, the argument text
ApplyToolDelta(data, d) ==
    LET padded == Pad(data, d.index)
        tc == padded[d.index + 1]
        id1 == IF Truthy(d.id) THEN d.id ELSE tc.id
        name1 == IF Truthy(d.function.name) THEN d.function.name ELSE tc.function.name
        args1 == IF Truthy(d.function.arguments)
                 THEN tc.function.arguments \o d.function.arguments
                 ELSE tc.function.arguments
    IN  [padded EXCEPT ![d.index + 1] =
            [id |-> id1, type |-> "function",
             function |-> [name |-> name1, arguments |-> args1]]]

RECURSIVE ApplyToolDeltas(_, _)
ApplyToolDeltas(data, ds) ==
    IF ds = <<>> THEN data
    ELSE ApplyToolDeltas(ApplyToolDelta(data, Head(ds)), Tail(ds))

EmptyAcc ==
    [role |-> None, reasoning_content |-> "", content_text |-> "",
     tool_calls_data |-> <<>>]

Consume_replaces(acc, chunk) ==
    IF ~chunk.has_choices THEN acc
    ELSE [role |-> IF Truthy(chunk.role) THEN chunk.role ELSE acc.role,
          reasoning_content |->
              IF Truthy(chunk.reasoning_content)
              THEN acc.reasoning_content \o chunk.reasoning_content
              ELSE acc.reasoning_content,
          content_text |->
              IF Truthy(chunk.content) THEN chunk.content ELSE acc.content_text,
          tool_calls_data |-> ApplyToolDeltas(acc.tool_calls_data, chunk.tool_calls)]

\* One pass of the body of `for chunk in stream`
Consume(acc, chunk) ==
    IF ~chunk.has_choices THEN acc
    ELSE [role |-> IF Truthy(chunk.role) THEN chunk.role ELSE acc.role,
          reasoning_content |->
              IF Truthy(chunk.reasoning_content)
              THEN acc.reasoning_content \o chunk.reasoning_content
              ELSE acc.reasoning_content,
          content_text |->
              IF Truthy(chunk.content) THEN acc.content_text \o chunk.content
              ELSE acc.content_text,
          tool_calls_data |-> ApplyToolDeltas(acc.tool_calls_data, chunk.tool_calls)]

\* `for chunk in stream` run to the end of the fragments F
RECURSIVE ConsumeAll(_, _)
ConsumeAll(acc, F) ==
    IF F = <<>> THEN acc ELSE ConsumeAll(Consume(acc, Head(F)), Tail(F))

HasId_or_name(tc) == Truthy(tc.id) \/ tc.function.name # ""

\* `if tc["id"]`
HasId(tc) == Truthy(tc.id)

KeptToolCalls_all(data) == data

KeptToolCalls_rotated(data) ==
    LET kept == SelectSeq(data, HasId)
    IN  IF kept = <<>> THEN kept ELSE Append(Tail(kept), Head(kept))

\* ReconstructedMessage.tool_calls: the slots that received an id
KeptToolCalls(data) == SelectSeq(data, HasId)

ReconstructedMessage_empty_content(acc) ==
    LET calls == KeptToolCalls(acc.tool_calls_data)
        keys == {"role", "content"}
                \cup (IF acc.reasoning_content # "" THEN {"reasoning_content"} ELSE {})
                \cup (IF calls # <<>> THEN {"tool_calls"} ELSE {})
    IN  [k \in keys |->
            CASE k = "role" -> (IF Truthy(acc.role) THEN acc.role ELSE "assistant")
              [] k = "content" -> acc.content_text
              [] k = "reasoning_content" -> acc.reasoning_content
              [] k = "tool_calls" -> calls]

\* ReconstructedMessage followed by convert_message_for_api
ReconstructedMessage(acc) ==
    LET calls == KeptToolCalls(acc.tool_calls_data)
        keys == {"role"}
                \cup (IF acc.content_text # "" THEN {"content"} ELSE {})
                \cup (IF acc.reasoning_content # "" THEN {"reasoning_content"} ELSE {})
                \cup (IF calls # <<>> THEN {"tool_calls"} ELSE {})
    IN  [k \in keys |->
            CASE k = "role" -> (IF Truthy(acc.role) THEN acc.role ELSE "assistant")
              [] k = "content" -> acc.content_text
              [] k = "reasoning_content" -> acc.reasoning_content
              [] k = "tool_calls" -> calls]

\* ------------------------------------------------------------ tool dispatch

\* tool_map of main
tool_map ==
    {"create_project", "write_file", "read_file", "list_files",
     "compress_context", "web_search"}

JsonObject(keys) == [kind |-> "object", keys |-> keys]

JsonOther(kind) == [kind |-> kind, keys |-> {}]

\* json.loads on the argument texts the model's streams can build; every other
\* text (the empty text, a truncated or malformed payload) is a JSONDecodeError
json_loads(s) ==
    CASE s = "{}" -> Returned(JsonObject({}))
      [] s = "{\"filename\": \"a.md\"}" -> Returned(JsonObject({"filename"}))
      [] s = "{\"query\": \"q\"}" -> Returned(JsonObject({"query"}))
      [] s = "[]" -> Returned(JsonOther("array"))
      [] s = "null" -> Returned(JsonOther("null"))
      [] OTHER -> Raised

\* try: args = json.loads(args_str) except json.JSONDecodeError: args = {}
ParseArgs(args_str) ==
    LET r == json_loads(args_str)
    IN  IF r.raised THEN JsonObject({}) ELSE r.value

\* The parameters of the handlers whose source is at hand (none has a default)
Params(func_name) ==
    CASE func_name = "read_file" -> {"filename"}
      [] func_name = "web_search" -> {"query"}
      [] OTHER -> {}

\* What the body of a handler can do once it was entered
BodyOutcomes(func_name) ==
    CASE func_name = "read_file" ->
            {Returned("Error: No active project folder."), Returned("file text")}
      [] func_name = "web_search" -> {Returned("[1] result"), Raised}
      [] OTHER -> {Returned("Files in project folder")}

\* tool_func(**args): a TypeError unless args is a mapping whose keys are exactly
\* the parameters of the handler
CallTool(func_name, args) ==
    IF args.kind # "object" \/ args.keys # Params(func_name)
    THEN {Raised}
    ELSE BodyOutcomes(func_name)

UnknownToolResult(func_name) == "Error: Unknown tool '" \o func_name \o "'"

ToolMessage(tool_call, result) ==
    [role |-> "tool", tool_call_id |-> tool_call.id,
     name |-> tool_call.function.name, content |-> result]

\* ------------------------------------------------------------ model endpoint

Chunk(role, reasoning, content, tcs) ==
    [has_choices |-> TRUE, role |-> role, reasoning_content |-> reasoning,
     content |-> content, tool_calls |-> tcs]

NoChoices ==
    [has_choices |-> FALSE, role |-> None, reasoning_content |-> None,
     content |-> None, tool_calls |-> <<>>]

TCDelta(index, id, name, args) ==
    [index |-> index, id |-> id, function |-> [name |-> name, arguments |-> args]]

\* One tool call whose argument text arrives in two fragments
ToolTurn(name, a1, a2) ==
    <<Chunk("assistant", None, None, <<TCDelta(0, "call_1", name, a1)>>),
      Chunk(None, None, None, <<TCDelta(0, None, None, a2)>>)>>

FinalTurn == <<Chunk("assistant", "think", None, <<>>), Chunk(None, None, "Done", <<>>)>>

PlainToolTurn == ToolTurn("list_files", "{", "}")

PlainScripts == {FinalTurn, PlainToolTurn}

RichScripts ==
    PlainScripts \cup
    { ToolTurn("read_file", "{not", " valid"),
      ToolTurn("read_file", "{\"filename\": ", "\"a.md\"}"),
      ToolTurn("web_search", "{\"query\": ", "\"q\"}"),
      ToolTurn("nonexistent_tool", "{", "}"),
      ToolTurn("compress_context", "{", "}"),
      ToolTurn("list_files", None, None),
      ToolTurn("list_files", "[", "]"),
      <<Chunk("assistant", None, None,
              <<TCDelta(0, "call_1", "web_search", "{\"query\": \"q\"}"),
                TCDelta(1, "call_2", "list_files", "{}")>>)>>,
      <<Chunk("assistant", None, None, <<TCDelta(0, "call_1", "compress_context", "{}")>>),
        Chunk(None, None, None, <<TCDelta(1, "call_2", "list_files", "{}")>>)>>,
      <<Chunk("assistant", None, None, <<TCDelta(1, "call_2", "list_files", "{}")>>)>>,
      <<Chunk("assistant", None, None, <<TCDelta(0, None, "list_files", "{}")>>)>>,
      <<Chunk("assistant", None, None,
              <<TCDelta(0, "call_1", "nonexistent_tool", "{}"),
                TCDelta(1, "call_2", "list_files", "{}")>>)>>,
      <<NoChoices>> }

Scripts(msgs) == IF Len(msgs) <= RichLen THEN RichScripts ELSE PlainScripts

\* Turns that ask for the reserved tool compress_context: alone, and between two
\* other calls
CompressScripts ==
    { ToolTurn("compress_context", "{", "}"),
      <<Chunk("assistant", None, None,
              <<TCDelta(0, "call_1", "list_files", "{}"),
                TCDelta(1, "call_2", "compress_context", "{}"),
                TCDelta(2, "call_3", "list_files", "{}")>>)>> }

\* A model that asks for list_files and, once the conversation is longer than what
\* the compressor retains, also for compress_context
LateScripts(msgs) ==
    IF Len(msgs) > KEEP_RECENT + 1 THEN PlainScripts \cup CompressScripts
    ELSE PlainScripts

\* The answers of the estimation endpoint
RemoteOutcomes ==
    { RemoteOk(179999), RemoteOk(180000), RemoteOk(200000),
      RemoteStatus(405), RemoteStatus(500), RemoteRequestError }

\* ------------------------------------------------------------ state

VARIABLES
    env,          \* the environment of the process: API key, command-line arguments
    pc,           \* position of main: "estimate", "backup", "call", "stream",
                  \* "dispatch", "after_loop", "done", "exited", "killed"
    iteration,    \* the loop variable of `for iteration in range(1, MAX_ITERATIONS + 1)`
    messages,     \* the conversation
    token_count,  \* the last estimate (0 after a failed one)
    stream,       \* the fragments the endpoint has still to deliver
    script,       \* history: the fragments of the stream that is being consumed
    acc,          \* role, reasoning_content, content_text, tool_calls_data
    pending,      \* the tool calls of the current turn not dispatched yet
    model_calls,  \* history: number of client.chat.completions.create calls
    sent,         \* history: the conversation and iteration of the last model call
    reasons,      \* history: the termination outcomes the run has reported
    clog,         \* history: the compressor invocations of the current iteration
    tool_turns    \* history: number of assembled turns that carried tool calls

vars ==
    <<env, pc, iteration, messages, token_count, stream, script, acc, pending,
      model_calls, sent, reasons, clog, tool_turns>>

Invocation(phase, keep_recent, msgs, result) ==
    [phase |-> phase, keep_recent |-> keep_recent, len |-> Len(msgs), result |-> result]

\* The invocation of the budget check, with the estimate that triggered it
BudgetInvocation(msgs, keep_recent, estimate, result) ==
    [phase |-> "budget", keep_recent |-> keep_recent, len |-> Len(msgs),
     result |-> result, estimate |-> estimate]

\* An environment with an API key and a prompt on the command line
DefaultEnv == [api_key |-> "sk-key", recover |-> None, prompt |-> "task"]

Init ==
    /\ env = DefaultEnv
    /\ pc = "estimate"
    /\ iteration = 1
    /\ messages = InitialMessages
    /\ token_count = 0
    /\ stream = <<>>
    /\ script = <<>>
    /\ acc = EmptyAcc
    /\ pending = <<>>
    /\ model_calls = 0
    /\ sent = [iteration |-> 0, messages |-> <<>>]
    /\ reasons = {}
    /\ clog = <<>>
    /\ tool_turns = 0

NextIteration_retry(log) ==
    /\ pc' = "estimate"
    /\ clog' = <<>>
    /\ UNCHANGED iteration

\* The end of a pass of the loop body, by `continue` or by running off its end:
\* the next value of the range, or the statement after the loop when the range is
\* exhausted. log is the compressor log of the pass that ends.
NextIteration(log) ==
    IF iteration < MAX_ITERATIONS
    THEN /\ iteration' = iteration + 1
         /\ pc' = "estimate"
         /\ clog' = <<>>
    ELSE /\ pc' = "after_loop"
         /\ clog' = log
         /\ UNCHANGED iteration

\* ------------------------------------------------------------ the loop

ReachesThreshold_strict(count) == count > COMPRESSION_THRESHOLD

ReachesThreshold_limit(count) == count >= TOKEN_LIMIT

\* `if token_count >= COMPRESSION_THRESHOLD`
ReachesThreshold(count) == count >= COMPRESSION_THRESHOLD

\* What the token check of an iteration computes from the answers it gets: r1 to
\* the estimate, c of the compressor when the threshold is reached, r2 to the
\* estimate of the replacement; any exception leaves token_count = 0
TokenCheck(msgs, r1, c, r2) ==
    LET e1 == estimate_token_count(msgs, r1)
    IN  IF e1.raised THEN [messages |-> msgs, token_count |-> 0, clog |-> <<>>]
        ELSE IF ~ReachesThreshold(e1.value)
        THEN [messages |-> msgs, token_count |-> e1.value, clog |-> <<>>]
        ELSE LET cr == compress_context_impl(msgs, KEEP_RECENT, c)
             IN  IF cr.raised
                 THEN [messages |-> msgs, token_count |-> 0,
                       clog |-> <<BudgetInvocation(msgs, KEEP_RECENT, e1.value, <<>>)>>]
                 ELSE IF "compressed_messages" \notin DOMAIN cr.value
                 THEN [messages |-> msgs, token_count |-> e1.value,
                       clog |-> <<BudgetInvocation(msgs, KEEP_RECENT, e1.value, <<>>)>>]
                 ELSE LET msgs1 == cr.value.compressed_messages
                          e2 == estimate_token_count(msgs1, r2)
                      IN  [messages |-> msgs1,
                           token_count |-> IF e2.raised THEN 0 ELSE e2.value,
                           clog |-> <<BudgetInvocation(msgs, KEEP_RECENT, e1.value, msgs1)>>]

\* The answers the token check consumes: the compressor is asked only at or above
\* the threshold, the second estimate only when a replacement was installed
Answers(msgs, remotes, outcomes) ==
    UNION { LET e1 == estimate_token_count(msgs, r1)
            IN  IF e1.raised \/ ~ReachesThreshold(e1.value)
                THEN {<<r1, "ok", r1>>}
                ELSE UNION { IF c = "ok" /\ CanCompress(msgs, KEEP_RECENT)
                             THEN {<<r1, c, r2>> : r2 \in remotes}
                             ELSE {<<r1, c, r1>>} : c \in outcomes }
            : r1 \in remotes }

Estimate(remotes, outcomes) ==
    /\ pc = "estimate"
    /\ \E a \in Answers(messages, remotes, outcomes) :
          LET t == TokenCheck(messages, a[1], a[2], a[3])
          IN  /\ messages' = t.messages
              /\ token_count' = t.token_count
              /\ clog' = t.clog
    /\ pc' = IF iteration % BACKUP_INTERVAL = 0 THEN "backup" ELSE "call"
    /\ UNCHANGED <<iteration, stream, script, acc, pending, model_calls, sent, reasons,
                   tool_turns>>
    /\ UNCHANGED env

Backup_installs(outcomes) ==
    /\ pc = "backup"
    /\ \E c \in outcomes :
          clog' = Append(clog, Invocation("backup", Len(messages), messages, <<>>))
    /\ messages' = <<messages[1], SummaryMessage>> \o Tail(messages)
    /\ pc' = "call"
    /\ UNCHANGED <<iteration, token_count, stream, script, acc, pending, model_calls, sent,
                   reasons, tool_turns>>
    /\ UNCHANGED env

\* The auto-backup: the compressor keeps every message, its result is only printed
Backup(outcomes) ==
    /\ pc = "backup"
    /\ \E c \in outcomes :
          clog' = Append(clog, Invocation("backup", Len(messages), messages, <<>>))
    /\ pc' = "call"
    /\ UNCHANGED <<iteration, messages, token_count, stream, script, acc, pending,
                   model_calls, sent, reasons, tool_turns>>
    /\ UNCHANGED env

\* client.chat.completions.create returns a stream
CallModel ==
    /\ pc = "call"
    /\ \E s \in Scripts(messages) : stream' = s /\ script' = s
    /\ acc' = EmptyAcc
    /\ model_calls' = model_calls + 1
    /\ sent' = [iteration |-> iteration, messages |-> messages]
    /\ pc' = "stream"
    /\ UNCHANGED <<iteration, messages, token_count, pending, reasons, clog,
                   tool_turns>>
    /\ UNCHANGED env

\* client.chat.completions.create returns a stream, from a model that asks for
\* compress_context late in the session
CallModelLate ==
    /\ pc = "call"
    /\ \E s \in LateScripts(messages) : stream' = s /\ script' = s
    /\ acc' = EmptyAcc
    /\ model_calls' = model_calls + 1
    /\ sent' = [iteration |-> iteration, messages |-> messages]
    /\ pc' = "stream"
    /\ UNCHANGED <<iteration, messages, token_count, pending, reasons, clog,
                   tool_turns>>
    /\ UNCHANGED env

\* client.chat.completions.create raises
CallModelFails ==
    /\ pc = "call"
    /\ model_calls' = model_calls + 1
    /\ sent' = [iteration |-> iteration, messages |-> messages]
    /\ NextIteration(clog)
    /\ UNCHANGED <<messages, token_count, stream, script, acc, pending, reasons, tool_turns>>
    /\ UNCHANGED env

ConsumeChunk_fresh ==
    /\ pc = "stream"
    /\ stream # <<>>
    /\ acc' = Consume(EmptyAcc, Head(stream))
    /\ stream' = Tail(stream)
    /\ UNCHANGED <<pc, iteration, messages, token_count, script, pending, model_calls,
                   sent, reasons, clog, tool_turns>>
    /\ UNCHANGED env

\* One fragment of the stream
ConsumeChunk ==
    /\ pc = "stream"
    /\ stream # <<>>
    /\ acc' = Consume(acc, Head(stream))
    /\ stream' = Tail(stream)
    /\ UNCHANGED <<pc, iteration, messages, token_count, script, pending, model_calls,
                   sent, reasons, clog, tool_turns>>
    /\ UNCHANGED env

StreamError_appends ==
    /\ pc = "stream"
    /\ stream' = <<>>
    /\ script' = <<>>
    /\ acc' = EmptyAcc
    /\ messages' = Append(messages, ReconstructedMessage(acc))
    /\ NextIteration(clog)
    /\ UNCHANGED <<token_count, pending, model_calls, sent, reasons, tool_turns>>
    /\ UNCHANGED env

StreamError_aborts ==
    /\ pc = "stream"
    /\ stream' = <<>>
    /\ script' = <<>>
    /\ acc' = EmptyAcc
    /\ pc' = "after_loop"
    /\ UNCHANGED <<iteration, messages, token_count, pending, model_calls, sent,
                   reasons, clog, tool_turns>>
    /\ UNCHANGED env

\* The stream raises while it is iterated
StreamError ==
    /\ pc = "stream"
    /\ stream' = <<>>
    /\ script' = <<>>
    /\ acc' = EmptyAcc
    /\ NextIteration(clog)
    /\ UNCHANGED <<messages, token_count, pending, model_calls, sent, reasons,
                   tool_turns>>
    /\ UNCHANGED env

BreaksLoop_never(message) == FALSE

\* `if not message.tool_calls: ... break`
BreaksLoop(message) == ~HasToolCalls(message)

RECURSIVE Reverse(_)
Reverse(seq) == IF seq = <<>> THEN <<>> ELSE Append(Reverse(Tail(seq)), Head(seq))

ToolCallsOf_reversed(message) ==
    IF HasToolCalls(message) THEN Reverse(message.tool_calls) ELSE <<>>

\* `for tool_call in message.tool_calls`
ToolCallsOf(message) == IF HasToolCalls(message) THEN message.tool_calls ELSE <<>>

FinishStream_eager ==
    /\ pc = "stream"
    /\ LET message == ReconstructedMessage(acc)
       IN  /\ messages' = Append(messages, message)
           /\ IF BreaksLoop(message)
              THEN /\ reasons' = reasons \cup {"completed"}
                   /\ pc' = "after_loop"
                   /\ UNCHANGED <<pending, tool_turns>>
              ELSE /\ pending' = ToolCallsOf(message)
                   /\ tool_turns' = tool_turns + 1
                   /\ pc' = "dispatch"
                   /\ UNCHANGED reasons
    /\ acc' = EmptyAcc
    /\ script' = <<>>
    /\ UNCHANGED <<iteration, token_count, stream, model_calls, sent, clog>>
    /\ UNCHANGED env

\* The stream is drained: the message is reconstructed and appended; without tool
\* calls the loop breaks
FinishStream ==
    /\ pc = "stream"
    /\ stream = <<>>
    /\ LET message == ReconstructedMessage(acc)
       IN  /\ messages' = Append(messages, message)
           /\ IF BreaksLoop(message)
              THEN /\ reasons' = reasons \cup {"completed"}
                   /\ pc' = "after_loop"
                   /\ UNCHANGED <<pending, tool_turns>>
              ELSE /\ pending' = ToolCallsOf(message)
                   /\ tool_turns' = tool_turns + 1
                   /\ pc' = "dispatch"
                   /\ UNCHANGED reasons
    /\ acc' = EmptyAcc
    /\ script' = <<>>
    /\ UNCHANGED <<iteration, token_count, stream, model_calls, sent, clog>>
    /\ UNCHANGED env

DispatchUnknown_aborts ==
    /\ pc = "dispatch"
    /\ pending # <<>>
    /\ Head(pending).function.name \notin tool_map
    /\ pending' = <<>>
    /\ NextIteration(clog)
    /\ UNCHANGED <<messages, token_count, stream, script, acc, model_calls, sent, reasons,
                   tool_turns>>
    /\ UNCHANGED env

\* A tool call whose name is not in tool_map
DispatchUnknown ==
    /\ pc = "dispatch"
    /\ pending # <<>>
    /\ LET tool_call == Head(pending)
           func_name == tool_call.function.name
       IN  /\ func_name \notin tool_map
           /\ messages' =
                 Append(messages, ToolMessage(tool_call, UnknownToolResult(func_name)))
    /\ pending' = Tail(pending)
    /\ IF Tail(pending) = <<>>
       THEN NextIteration(clog)
       ELSE UNCHANGED <<pc, iteration, clog>>
    /\ UNCHANGED <<token_count, stream, script, acc, model_calls, sent, reasons, tool_turns>>
    /\ UNCHANGED env

Installed_never(result_data, msgs) == msgs

\* `if "compressed_messages" in result_data: messages = result_data["compressed_messages"]`
Installed(result_data, msgs) ==
    IF "compressed_messages" \in DOMAIN result_data
    THEN result_data.compressed_messages
    ELSE msgs

\* The reserved tool compress_context
DispatchCompress(outcomes) ==
    /\ pc = "dispatch"
    /\ pending # <<>>
    /\ Head(pending).function.name = "compress_context"
    /\ \E c \in outcomes :
          LET tool_call == Head(pending)
              rd == compress_context_impl(messages, KEEP_RECENT, c)
              replaced == ~rd.raised /\ "compressed_messages" \in DOMAIN rd.value
              msgs1 == IF rd.raised THEN messages ELSE Installed(rd.value, messages)
              entry == Invocation("tool", KEEP_RECENT, messages,
                                  IF replaced THEN msgs1 ELSE <<>>)
          IN  IF rd.raised
              THEN /\ NextIteration(Append(clog, entry))
                   /\ pending' = <<>>
                   /\ UNCHANGED messages
              ELSE /\ messages' =
                         Append(msgs1,
                                ToolMessage(tool_call,
                                            IF "message" \in DOMAIN rd.value
                                            THEN rd.value.message
                                            ELSE "Compression completed"))
                   /\ pending' = Tail(pending)
                   /\ IF Tail(pending) = <<>>
                      THEN NextIteration(Append(clog, entry))
                      ELSE /\ clog' = Append(clog, entry)
                           /\ UNCHANGED <<pc, iteration>>
    /\ UNCHANGED <<token_count, stream, script, acc, model_calls, sent, reasons, tool_turns>>
    /\ UNCHANGED env

DispatchTool_overwrites ==
    /\ pc = "dispatch"
    /\ pending # <<>>
    /\ Head(pending).function.name \in tool_map \ {"compress_context"}
    /\ LET tool_call == Head(pending)
           args == ParseArgs(tool_call.function.arguments)
       IN  \E r \in CallTool(tool_call.function.name, args) :
              IF r.raised
              THEN /\ NextIteration(clog)
                   /\ pending' = <<>>
                   /\ UNCHANGED messages
              ELSE /\ messages' = [messages EXCEPT ![Len(messages)] =
                                      ToolMessage(tool_call, r.value)]
                   /\ pending' = Tail(pending)
                   /\ IF Tail(pending) = <<>>
                      THEN NextIteration(clog)
                      ELSE UNCHANGED <<pc, iteration, clog>>
    /\ UNCHANGED <<token_count, stream, script, acc, model_calls, sent, reasons, tool_turns>>
    /\ UNCHANGED env

\* Any other tool of tool_map: the handler returns a string or raises
DispatchTool ==
    /\ pc = "dispatch"
    /\ pending # <<>>
    /\ Head(pending).function.name \in tool_map \ {"compress_context"}
    /\ LET tool_call == Head(pending)
           args == ParseArgs(tool_call.function.arguments)
       IN  \E r \in CallTool(tool_call.function.name, args) :
              IF r.raised
              THEN /\ NextIteration(clog)
                   /\ pending' = <<>>
                   /\ UNCHANGED messages
              ELSE /\ messages' = Append(messages, ToolMessage(tool_call, r.value))
                   /\ pending' = Tail(pending)
                   /\ IF Tail(pending) = <<>>
                      THEN NextIteration(clog)
                      ELSE UNCHANGED <<pc, iteration, clog>>
    /\ UNCHANGED <<token_count, stream, script, acc, model_calls, sent, reasons, tool_turns>>
    /\ UNCHANGED env

Interrupt_appends(outcomes) ==
    /\ pc \in {"call", "stream", "dispatch"}
    /\ messages' = IF pc = "stream" THEN Append(messages, ReconstructedMessage(acc))
                   ELSE messages
    /\ \E c \in outcomes :
          clog' = Append(clog, Invocation("interrupt", Len(messages'), messages', <<>>))
    /\ reasons' = reasons \cup {"interrupted"}
    /\ pc' = "exited"
    /\ stream' = <<>>
    /\ script' = <<>>
    /\ acc' = EmptyAcc
    /\ pending' = <<>>
    /\ UNCHANGED <<iteration, token_count, model_calls, sent, tool_turns>>
    /\ UNCHANGED env

\* KeyboardInterrupt inside the try block of the model call: one checkpoint
\* attempt that keeps every message, then sys.exit(0)
Interrupt(outcomes) ==
    /\ pc \in {"call", "stream", "dispatch"}
    /\ \E c \in outcomes :
          clog' = Append(clog, Invocation("interrupt", Len(messages), messages, <<>>))
    /\ reasons' = reasons \cup {"interrupted"}
    /\ pc' = "exited"
    /\ stream' = <<>>
    /\ script' = <<>>
    /\ acc' = EmptyAcc
    /\ pending' = <<>>
    /\ UNCHANGED <<iteration, messages, token_count, model_calls, sent, tool_turns>>
    /\ UNCHANGED env

\* KeyboardInterrupt outside that try block (token check, auto-backup, final
\* save): no handler catches it, the process ends with the traceback
InterruptUncaught ==
    /\ pc \in {"estimate", "backup", "after_loop"}
    /\ pc' = "killed"
    /\ UNCHANGED <<iteration, messages, token_count, stream, script, acc, pending,
                   model_calls, sent, reasons, clog, tool_turns>>
    /\ UNCHANGED env

\* The statement after the loop: the final save when iteration >= MAX_ITERATIONS
AfterLoop(outcomes) ==
    /\ pc = "after_loop"
    /\ IF iteration >= MAX_ITERATIONS
       THEN /\ reasons' = reasons \cup {"iteration-limit"}
            /\ \E c \in outcomes :
                  clog' = Append(clog, Invocation("final", Len(messages), messages, <<>>))
       ELSE UNCHANGED <<reasons, clog>>
    /\ pc' = "done"
    /\ UNCHANGED <<iteration, messages, token_count, stream, script, acc, pending,
                   model_calls, sent, tool_turns>>
    /\ UNCHANGED env

Next ==
    \/ Estimate(RemoteOutcomes, CompressOutcomes)
    \/ Backup(CompressOutcomes)
    \/ CallModel
    \/ CallModelFails
    \/ ConsumeChunk
    \/ StreamError
    \/ FinishStream
    \/ DispatchUnknown
    \/ DispatchCompress(CompressOutcomes)
    \/ DispatchTool
    \/ Interrupt(CompressOutcomes)
    \/ InterruptUncaught
    \/ AfterLoop(CompressOutcomes)

Spec == Init /\ [][Next]_vars

\* The same loop against an estimation endpoint that answers 185000 every time
Next185 ==
    \/ Estimate({RemoteOk(185000)}, CompressOutcomes)
    \/ Backup(CompressOutcomes)
    \/ CallModel
    \/ CallModelFails
    \/ ConsumeChunk
    \/ StreamError
    \/ FinishStream
    \/ DispatchUnknown
    \/ DispatchCompress(CompressOutcomes)
    \/ DispatchTool
    \/ Interrupt(CompressOutcomes)
    \/ InterruptUncaught
    \/ AfterLoop(CompressOutcomes)

Spec185 == Init /\ [][Next185]_vars

\* The same loop against an estimation endpoint that stays below the threshold and
\* a model that asks for registered tools only, for compress_context late in the
\* session
NextLate ==
    \/ Estimate({RemoteOk(179999)}, CompressOutcomes)
    \/ Backup(CompressOutcomes)
    \/ CallModelLate
    \/ CallModelFails
    \/ ConsumeChunk
    \/ StreamError
    \/ FinishStream
    \/ DispatchCompress(CompressOutcomes)
    \/ DispatchTool
    \/ Interrupt(CompressOutcomes)
    \/ InterruptUncaught
    \/ AfterLoop(CompressOutcomes)

SpecLate == Init /\ [][NextLate]_vars

\* ------------------------------------------------------------ startup

\* os.getenv("MOONSHOT_API_KEY"): unset, set to the empty text, set
ApiKeys == {None, "", "sk-key"}

\* The environments of a run: the API key, the body of the file named by --recover
\* (None without the option) and the prompt argument (None without it); one of the
\* two arguments is given
Envs ==
    {e \in [api_key : ApiKeys, recover : {None, "saved summary"},
            prompt : {None, "task"}] :
        e.recover # None \/ e.prompt # None}

ApiKeyMissing_never(api_key) == FALSE

\* `if not api_key`
ApiKeyMissing(api_key) == ~Truthy(api_key)

\* The recovery file wins over the prompt argument
get_user_input(e) ==
    IF Truthy(e.recover)
    THEN [user_prompt |-> e.recover, is_recovery |-> TRUE]
    ELSE [user_prompt |-> e.prompt, is_recovery |-> FALSE]

RecoveredContent_bare(user_prompt) == user_prompt

\* The content of the user message in recovery mode
RecoveredContent(user_prompt) ==
    "[RECOVERED CONTEXT]\n\n" \o user_prompt
       \o "\n\n[END RECOVERED CONTEXT]\n\n"
       \o "Please continue the editing work from where we left off."

\* messages as main initializes it
InitialConversation(e) ==
    LET u == get_user_input(e)
    IN  <<SystemMessage,
          [role |-> "user",
           content |-> IF u.is_recovery THEN RecoveredContent(u.user_prompt)
                       ELSE u.user_prompt]>>

\* The process has started: nothing was read yet
InitStart ==
    /\ env \in Envs
    /\ pc = "start"
    /\ iteration = 0
    /\ messages = <<>>
    /\ token_count = 0
    /\ stream = <<>>
    /\ script = <<>>
    /\ acc = EmptyAcc
    /\ pending = <<>>
    /\ model_calls = 0
    /\ sent = [iteration |-> 0, messages |-> <<>>]
    /\ reasons = {}
    /\ clog = <<>>
    /\ tool_turns = 0

\* main up to the loop: sys.exit(1) without API key, else the initial conversation
\* and the first value of the range
Start ==
    /\ pc = "start"
    /\ IF ApiKeyMissing(env.api_key)
       THEN /\ pc' = "exit_failure"
            /\ UNCHANGED <<messages, iteration>>
       ELSE /\ pc' = "estimate"
            /\ messages' = InitialConversation(env)
            /\ iteration' = 1
    /\ UNCHANGED <<env, token_count, stream, script, acc, pending, model_calls, sent,
                   reasons, clog, tool_turns>>

\* The whole process, with an estimation endpoint that cannot be reached
NextStart ==
    \/ Start
    \/ Estimate({RemoteRequestError}, CompressOutcomes)
    \/ Backup(CompressOutcomes)
    \/ CallModel
    \/ CallModelFails
    \/ ConsumeChunk
    \/ StreamError
    \/ FinishStream
    \/ DispatchUnknown
    \/ DispatchCompress(CompressOutcomes)
    \/ DispatchTool
    \/ Interrupt(CompressOutcomes)
    \/ InterruptUncaught
    \/ AfterLoop(CompressOutcomes)

SpecStart == InitStart /\ [][NextStart]_vars

\* ------------------------------------------------------------ stream assembler alone

MaxFragments == 3

\* The fragments of the assembler's streams: no choices, role only, reasoning,
\* reasoning and content together, content, an empty content delta, and tool-call
\* deltas for the indices 0 and 1 with and without id, one fragment whose deltas
\* open the index 2 before the index 0 and leave the index 1 out, and one with
\* content and a tool-call delta that has a name and no id
AsmChunks ==
    { NoChoices,
      Chunk("assistant", None, None, <<>>),
      Chunk(None, "x", None, <<>>),
      Chunk(None, "y", "a", <<>>),
      Chunk(None, None, "b", <<>>),
      Chunk(None, None, "", <<>>),
      Chunk(None, None, None, <<TCDelta(0, "call_1", "list_files", "{")>>),
      Chunk(None, None, None, <<TCDelta(0, None, None, "}")>>),
      Chunk(None, None, None, <<TCDelta(1, "call_2", "", "[")>>),
      Chunk(None, None, None,
            <<TCDelta(1, None, None, "]"), TCDelta(0, None, None, "}")>>),
      Chunk(None, None, None, <<TCDelta(1, None, "list_files", "{}")>>),
      Chunk(None, None, None,
            <<TCDelta(2, "call_3", "list_files", "{}"),
              TCDelta(0, "call_0", "list_files", "{}")>>),
      Chunk(None, None, "c", <<TCDelta(0, None, "list_files", "{}")>>) }

\* Every stream of at most MaxFragments fragments
AsmStreams == UNION {[1..k -> AsmChunks] : k \in 0..MaxFragments}

\* The first model call of a session has returned one of these streams
InitAsm ==
    /\ env = DefaultEnv
    /\ pc = "stream"
    /\ iteration = 1
    /\ messages = InitialMessages
    /\ token_count = estimate_tokens_with_tiktoken(Serializable(InitialMessages))
    /\ stream \in AsmStreams
    /\ script = stream
    /\ acc = EmptyAcc
    /\ pending = <<>>
    /\ model_calls = 1
    /\ sent = [iteration |-> 1, messages |-> InitialMessages]
    /\ reasons = {}
    /\ clog = <<>>
    /\ tool_turns = 0

\* The stream is consumed, the message appended and its tool calls dispatched
NextAsm ==
    \/ ConsumeChunk
    \/ FinishStream
    \/ DispatchUnknown
    \/ DispatchTool
    \/ AfterLoop(CompressOutcomes)

SpecAsm == InitAsm /\ [][NextAsm]_vars

\* ------------------------------------------------------------ assembler and next token check

\* A first turn as in SpecAsm, followed by the iterations after it, against an
\* estimation endpoint that is not available
NextEst ==
    \/ ConsumeChunk
    \/ FinishStream
    \/ DispatchUnknown
    \/ DispatchTool
    \/ Estimate({RemoteStatus(405), RemoteRequestError}, CompressOutcomes)
    \/ Backup(CompressOutcomes)
    \/ CallModel
    \/ AfterLoop(CompressOutcomes)

SpecEst == InitAsm /\ [][NextEst]_vars

\* ------------------------------------------------------------ properties

Last(seq) == seq[Len(seq)]

IsAssistant(m) == m.role = "assistant"

IsTool(m) == m.role = "tool"

\* The index of the nearest assistant message before position j, 0 when none
AssistantBefore(msgs, j) ==
    LET before == {i \in 1..(j - 1) : IsAssistant(msgs[i])}
    IN  IF before = {} THEN 0 ELSE CHOOSE i \in before : \A k \in before : k <= i

\* The index of the first assistant message after position i, Len + 1 when none
AssistantAfter(msgs, i) ==
    LET after == {k \in (i + 1)..Len(msgs) : IsAssistant(msgs[k])}
    IN  IF after = {} THEN Len(msgs) + 1 ELSE CHOOSE k \in after : \A l \in after : k <= l

\* The tool-role messages answering call id of the assistant message at i
AnswersTo(msgs, i, id) ==
    {j \in (i + 1)..(AssistantAfter(msgs, i) - 1) :
        IsTool(msgs[j]) /\ msgs[j].tool_call_id = id}

PairingOK(msgs) ==
    /\ \A i \in 1..Len(msgs) :
          IsAssistant(msgs[i]) /\ HasToolCalls(msgs[i]) =>
             \A c \in 1..Len(msgs[i].tool_calls) :
                Cardinality(AnswersTo(msgs, i, msgs[i].tool_calls[c].id)) = 1
    /\ \A j \in 1..Len(msgs) :
          IsTool(msgs[j]) =>
             LET i == AssistantBefore(msgs, j)
             IN  /\ i > 0
                 /\ HasToolCalls(msgs[i])
                 /\ \E c \in 1..Len(msgs[i].tool_calls) :
                       msgs[i].tool_calls[c].id = msgs[j].tool_call_id

\* C1: whenever an iteration starts and whenever the model is about to be called,
\* every tool call of every assistant message is answered by exactly one tool-role
\* message before the next assistant message, and every tool-role message answers
\* a call of the nearest assistant message before it.
C1_ToolCallPairing == pc \in {"estimate", "call"} => PairingOK(messages)

\* A dispatch step that is not cut short by an interrupt answers the call at the
\* head of the turn and leaves the rest of the turn to be dispatched
AnswersHead ==
    /\ IsTool(Last(messages'))
    /\ Last(messages').tool_call_id = Head(pending).id
    /\ pending' = Tail(pending)

\* C2: every dispatch of a tool call, also one whose handler raises, appends the
\* tool-role message of that call and goes on with the remaining calls of the turn.
C2_RaiseCaptured ==
    [][pc = "dispatch" /\ pending # <<>> /\ pc' # "exited" => AnswersHead]_vars

\* C3: a tool call whose argument text does not parse is dispatched with an empty
\* argument set: nothing is raised, the call is answered by a tool-role message
\* and the turn goes on, whatever the tool.
C3_MalformedArguments ==
    [][/\ pc = "dispatch"
       /\ pending # <<>>
       /\ json_loads(Head(pending).function.arguments).raised
       /\ pc' # "exited"
       => AnswersHead]_vars

\* C4: a model call is only ever issued after an estimate below TOKEN_LIMIT.
C4_BudgetSafety == pc = "stream" => token_count < TOKEN_LIMIT

BudgetEntries == {i \in 1..Len(clog) : clog[i].phase = "budget"}

C6_ExactlyOnce ==
    pc = "stream" => Len(clog) = 1 /\ clog[1].keep_recent = 10

\* C6 amended: with the estimator at 185000, the token check of every iteration
\* invokes the compressor exactly once, with keep_recent = 10; on an iteration that
\* is a multiple of 10 the auto-backup invokes it once more before the model call,
\* keeping the whole conversation; on the other iterations nothing else does.
C6_OncePerBudgetCheck ==
    pc = "stream" =>
       /\ BudgetEntries = {1}
       /\ clog[1].keep_recent = 10
       /\ iteration % 10 # 0 => Len(clog) = 1
       /\ iteration % 10 = 0 =>
             /\ Len(clog) = 2
             /\ clog[2].phase = "backup"
             /\ clog[2].keep_recent = Len(sent.messages)

C6_Witness == pc = "stream" /\ iteration = 10 /\ Len(clog) = 2

FinalTurnAt(i) == IsAssistant(messages[i]) /\ ~HasToolCalls(messages[i])

\* C7: an assistant message without tool calls is the last message of the
\* conversation, appended to what was sent to the model, and from then on the run
\* has reported completed and is past the loop: no estimate, model call or dispatch.
C7_CompletedStops ==
    /\ \A i \in 1..Len(messages) :
          FinalTurnAt(i) => i = Len(messages) /\ "completed" \in reasons
    /\ "completed" \in reasons =>
          /\ pc \in {"after_loop", "done", "killed"}
          /\ FinalTurnAt(Len(messages))
          /\ messages = Append(sent.messages, Last(messages))
          /\ pending = <<>>
          /\ stream = <<>>

C7_Witness ==
    /\ pc = "done"
    /\ reasons = {"completed"}
    /\ tool_turns > 0
    /\ FinalTurnAt(Len(messages))

\* C8: a run never reports both completed and iteration-limit.
C8_OneReason == ~({"completed", "iteration-limit"} \subseteq reasons)

FinalEntries == {i \in 1..Len(clog) : clog[i].phase = "final"}

\* C9: the number of model calls never exceeds the iteration number, which never
\* exceeds MAX_ITERATIONS; a finished run in which every iteration assembled a turn
\* with tool calls made exactly MAX_ITERATIONS model calls, reported iteration-limit
\* only, and attempted one checkpoint that keeps the whole final conversation.
C9_IterationCeiling ==
    /\ model_calls <= iteration
    /\ iteration <= MAX_ITERATIONS
    /\ pc = "done" /\ tool_turns = MAX_ITERATIONS =>
          /\ model_calls = MAX_ITERATIONS
          /\ reasons = {"iteration-limit"}
          /\ FinalEntries = {Len(clog)}
          /\ Last(clog).keep_recent = Len(messages)
          /\ Last(clog).len = Len(messages)

C9_Witness == pc = "done" /\ tool_turns = MAX_ITERATIONS

\* A step that leaves the model call or its stream by an exception
ModelFailureStep ==
    /\ pc \in {"call", "stream"}
    /\ pc' \in {"estimate", "after_loop"}
    /\ reasons' = reasons

\* C10: a failed model call or a failed stream appends nothing: the conversation is
\* the one that was sent, and the pass of the loop is used up: the next iteration
\* starts, or the loop ends when this was the last one.
C10_FailedCall ==
    [][ModelFailureStep =>
          /\ messages' = messages
          /\ sent'.messages = messages'
          /\ sent'.iteration = iteration
          /\ IF iteration < MAX_ITERATIONS
             THEN iteration' = iteration + 1 /\ pc' = "estimate"
             ELSE iteration' = iteration /\ pc' = "after_loop"]_vars

\* C10 witness: an iteration starts on the conversation the previous iteration
\* sent to the model
C10_Witness ==
    /\ pc = "estimate"
    /\ sent.iteration = iteration - 1
    /\ sent.messages = messages
    /\ Len(messages) > 2

\* The except branch of the token check is the only assignment of 0 to token_count:
\* the endpoint answers 179999 or more and the local estimate is at least 3
TokenCheckFailed == token_count = 0

\* The exception of the token check came from an estimate: from the first one when
\* the compressor was not reached, from the one of the replacement when the
\* compressor had returned one
EstimateFailed ==
    /\ TokenCheckFailed
    /\ \/ BudgetEntries = {}
       \/ clog[1].result # <<>>

\* C11: an iteration whose token estimate failed issues no model call, and the
\* conversation after the failed token check is the one before it, also when the
\* failing estimate is the one of a replacement the compressor returned.
C11_EstimateFailureRetries ==
    /\ pc = "stream" /\ sent.iteration = iteration => ~EstimateFailed
    /\ pc \in {"backup", "call"} /\ TokenCheckFailed /\ BudgetEntries # {} =>
          clog[1].result = <<>>

\* The answers of the estimation endpoint that are not a success
RemoteFailures == {r \in RemoteOutcomes : r.kind # "ok"}

\* C12: where the loop estimates the conversation, every failure of the estimation
\* endpoint (a non-success HTTP status or a network failure) makes
\* estimate_token_count return the local estimate of the same messages, and nothing
\* is raised.
C12_FallbackOnFailure ==
    pc = "estimate" =>
       \A r \in RemoteFailures :
          estimate_token_count(messages, r) =
             Returned(estimate_tokens_with_tiktoken(Serializable(messages)))

\* The positions of main inside the loop body
LoopPcs == {"estimate", "backup", "call", "stream", "dispatch"}

\* A step that takes main out of the loop
LeavesLoop == pc \in LoopPcs /\ pc' \notin LoopPcs

\* C13: the loop is left only by an assembled turn without tool calls, by the end
\* of the pass numbered MAX_ITERATIONS, or by a user interrupt; a failed token
\* check, compressor call, model call, stream or tool handler never leaves it
\* otherwise.
C13_NeverAborted ==
    [][LeavesLoop =>
          \/ pc' \in {"exited", "killed"}
          \/ /\ pc' = "after_loop"
             /\ iteration = MAX_ITERATIONS
             /\ reasons' = reasons
          \/ /\ pc' = "after_loop"
             /\ pc = "stream"
             /\ stream = <<>>
             /\ messages' = Append(messages, Last(messages'))
             /\ FinalTurnAt(Len(messages))'
             /\ "completed" \in reasons']_vars

\* C13 witness: the third iteration starts after a failed token check and two model
\* calls that appended nothing
C13_Witness ==
    /\ pc = "estimate"
    /\ iteration = 3
    /\ TokenCheckFailed
    /\ model_calls = 2
    /\ messages = InitialMessages

\* The index of the last assistant message, 0 when there is none
LastAssistant(msgs) == AssistantBefore(msgs, Len(msgs) + 1)

\* The messages after the last assistant message are tool-role messages that
\* answer its first calls, one each, in the order of the calls
AnsweredInOrder(msgs) ==
    LET i == LastAssistant(msgs)
        k == Len(msgs) - i
    IN  i > 0 /\ k > 0 =>
           /\ HasToolCalls(msgs[i])
           /\ k <= Len(msgs[i].tool_calls)
           /\ \A j \in 1..k :
                 /\ IsTool(msgs[i + j])
                 /\ msgs[i + j].tool_call_id = msgs[i].tool_calls[j].id
                 /\ msgs[i + j].name = msgs[i].tool_calls[j].function.name

\* The calls still to be dispatched are the calls of the turn after the answered ones
RestOfTurn(msgs, rest) ==
    LET i == LastAssistant(msgs)
        k == Len(msgs) - i
    IN  /\ i > 0
        /\ HasToolCalls(msgs[i])
        /\ k + Len(rest) = Len(msgs[i].tool_calls)
        /\ rest = SubSeq(msgs[i].tool_calls, k + 1, Len(msgs[i].tool_calls))

\* C14: during the dispatch of a turn the tool-role messages appended so far answer
\* the first calls of the assistant message in their order, and the calls not yet
\* handled are exactly the following ones: a handler runs only after every earlier
\* call of the turn was answered; each dispatch step handles the first of them.
C14_SequentialDispatch ==
    /\ pc = "dispatch" => AnsweredInOrder(messages) /\ RestOfTurn(messages, pending)
    /\ pc = "estimate" => AnsweredInOrder(messages)

\* C14 witness: the second handler of a turn with two calls is about to run, after
\* the answer to the first call was appended
C14_Witness ==
    /\ pc = "dispatch"
    /\ Len(pending) = 1
    /\ Len(messages[LastAssistant(messages)].tool_calls) = 2
    /\ IsTool(Last(messages))
    /\ Last(messages).tool_call_id = messages[LastAssistant(messages)].tool_calls[1].id
    /\ pending[1] = messages[LastAssistant(messages)].tool_calls[2]

\* A dispatch step of the reserved tool that is not cut short by an interrupt
CompressStep ==
    /\ pc = "dispatch"
    /\ pending # <<>>
    /\ Head(pending).function.name = "compress_context"
    /\ pc' # "exited"

\* The step is what the compressor answering with outcome c on the conversation as
\* it stands, with keep_recent = 10, leads to: the conversation becomes the returned
\* replacement followed by the tool-role message of the call
CompressStepWith(c) ==
    LET rd == compress_context_impl(messages, 10, c)
    IN  /\ ~rd.raised
        /\ Last(messages') =
              ToolMessage(Head(pending),
                          IF "message" \in DOMAIN rd.value
                          THEN rd.value.message ELSE "Compression completed")
        /\ messages' =
              Append(IF "compressed_messages" \in DOMAIN rd.value
                     THEN rd.value.compressed_messages ELSE messages,
                     Last(messages'))
        /\ pending' = Tail(pending)

BackupEntries == {i \in 1..Len(clog) : clog[i].phase = "backup"}

\* C16: the auto-backup runs on the iterations that are multiples of 10 and on no
\* other, once, before the model call, with keep_recent equal to the length of the
\* conversation; its step leaves the conversation as it was, and the model call of
\* the iteration sends that conversation.
C16_PeriodicCheckpoint ==
    [][/\ pc' = "backup" => iteration' % 10 = 0
       /\ pc = "backup" /\ pc' # "killed" =>
             /\ pc' = "call"
             /\ messages' = messages
             /\ clog' = Append(clog, Last(clog'))
             /\ Last(clog').phase = "backup"
             /\ Last(clog').keep_recent = Len(messages)
             /\ Last(clog').len = Len(messages)
       /\ pc = "call" /\ pc' = "stream" =>
             /\ sent'.messages = messages
             /\ iteration % 10 = 0 =>
                   /\ Cardinality(BackupEntries) = 1
                   /\ \A i \in BackupEntries : clog[i].len = Len(sent'.messages)
             /\ iteration % 10 # 0 => BackupEntries = {}]_vars

\* C16 witness: the model call of iteration 10 is under way, after one auto-backup
\* of a conversation grown by nine turns
C16_Witness ==
    /\ pc = "stream"
    /\ iteration = 10
    /\ Cardinality(BackupEntries) = 1
    /\ sent.iteration = 10
    /\ Len(sent.messages) > 2 * 9

\* A user interrupt that arrives inside an iteration
InterruptInLoop == pc \in LoopPcs /\ pc' \in {"exited", "killed"}

\* C17: a user interrupt at any point of an iteration (token check, auto-backup,
\* model call, stream, dispatch) is followed by one checkpoint attempt that keeps
\* the whole current conversation, then by the exit, with no further model call.
C17_InterruptCheckpoint ==
    [][InterruptInLoop =>
          /\ pc' = "exited"
          /\ clog' = Append(clog, Last(clog'))
          /\ Last(clog').phase = "interrupt"
          /\ Last(clog').keep_recent = Len(messages)
          /\ Last(clog').len = Len(messages)
          /\ messages' = messages
          /\ model_calls' = model_calls]_vars

\* C18: an interrupt while the stream of a model call is consumed appends nothing:
\* the checkpoint of the interrupt receives the conversation that was sent to the
\* model, whatever was accumulated from the stream.
C18_InterruptedStream ==
    [][pc = "stream" /\ pc' = "exited" =>
          /\ messages' = messages
          /\ messages' = sent.messages
          /\ clog' = Append(clog, Last(clog'))
          /\ Last(clog').phase = "interrupt"
          /\ Last(clog').len = Len(sent.messages)
          /\ Last(clog').keep_recent = Len(sent.messages)]_vars

\* C18 witness: the run exited on an interrupt that came after the model call of
\* the current iteration and before its message was appended
C18_Witness ==
    /\ pc = "exited"
    /\ sent.iteration = iteration
    /\ iteration > 1
    /\ messages = sent.messages
    /\ Last(clog).phase = "interrupt"
    /\ Last(clog).len = Len(messages)

\* The checkpoint attempts made after the last model call: the final save and the
\* save of the interrupt handler
ExitCheckpoints == {i \in 1..Len(clog) : clog[i].phase \in {"final", "interrupt"}}

\* C19: a run that has ended, completed, at the iteration limit or interrupted,
\* attempted a checkpoint of the whole conversation after its last model call.
C19_CheckpointBeforeExit ==
    pc \in {"done", "exited"} =>
       \E i \in ExitCheckpoints : clog[i].keep_recent = Len(messages)

\* A dispatch step of a call whose name is not in tool_map
UnknownToolStep ==
    /\ pc = "dispatch"
    /\ pending # <<>>
    /\ Head(pending).function.name \notin tool_map
    /\ pc' # "exited"

\* C20: the tool-role message appended for a call of a name that is not in the
\* registry has as content exactly Unknown tool '<name>', nothing before or after.
C20_UnknownToolText ==
    [][UnknownToolStep =>
          /\ IsTool(Last(messages'))
          /\ Last(messages').tool_call_id = Head(pending).id
          /\ Last(messages').content =
                "Unknown tool '" \o Head(pending).function.name \o "'"]_vars

\* C21: the dispatch of a call whose name is not in tool_map appends exactly one
\* tool-role message with the id and the name of the call, whose content is the
\* text built by the dispatcher and not the result of a handler; the remaining calls
\* of the turn stay to be dispatched, and after the last one the next iteration
\* starts; the run does not end.
C21_UnknownToolRecovered ==
    [][UnknownToolStep =>
          /\ messages' = Append(messages, Last(messages'))
          /\ Last(messages') =
                ToolMessage(Head(pending),
                            UnknownToolResult(Head(pending).function.name))
          /\ pending' = Tail(pending)
          /\ reasons' = reasons
          /\ IF Tail(pending) # <<>>
             THEN pc' = "dispatch" /\ iteration' = iteration
             ELSE IF iteration < MAX_ITERATIONS
             THEN pc' = "estimate" /\ iteration' = iteration + 1
             ELSE pc' = "after_loop"]_vars

\* C21 witness: the second iteration starts after a turn whose first call named an
\* unknown tool and whose second call was dispatched to its handler
C21_Witness ==
    /\ pc = "estimate"
    /\ iteration = 2
    /\ Len(messages) = 5
    /\ IsTool(messages[4])
    /\ messages[4].name = "nonexistent_tool"
    /\ messages[4].tool_call_id = "call_1"
    /\ IsTool(messages[5])
    /\ messages[5].name = "list_files"
    /\ messages[5].content = "Files in project folder"

\* The text a delta field adds: nothing when the field is absent
DeltaText(x) == IF x = None THEN "" ELSE x

\* The content deltas of the fragments, concatenated in arrival order
RECURSIVE ConcatContent(_)
ConcatContent(F) ==
    IF F = <<>> THEN ""
    ELSE (IF Head(F).has_choices THEN DeltaText(Head(F).content) ELSE "")
         \o ConcatContent(Tail(F))

\* The reasoning deltas of the fragments, concatenated in arrival order
RECURSIVE ConcatReasoning(_)
ConcatReasoning(F) ==
    IF F = <<>> THEN ""
    ELSE (IF Head(F).has_choices THEN DeltaText(Head(F).reasoning_content) ELSE "")
         \o ConcatReasoning(Tail(F))

\* The fragments of the current stream consumed so far
Consumed == SubSeq(script, 1, Len(script) - Len(stream))

\* The text of a field of a message, empty when the message has no such field
FieldText(m, k) == IF k \in DOMAIN m THEN m[k] ELSE ""

\* The step that ends a drained stream by appending a message (the other ways out
\* of a drained stream, an error or an interrupt, append nothing)
FinishStep ==
    /\ pc = "stream"
    /\ stream = <<>>
    /\ pc' \in {"dispatch", "after_loop"}
    /\ Len(messages') > Len(messages)

\* C22: while a stream is consumed each accumulator holds the concatenation, in
\* arrival order, of the deltas of its own kind received so far, and the message
\* appended for the drained stream has as content the concatenation of all content
\* deltas and as reasoning_content the concatenation of all reasoning deltas.
C22_Concatenation ==
    [][/\ pc = "stream" /\ pc' = "stream" =>
             /\ acc'.content_text = ConcatContent(Consumed')
             /\ acc'.reasoning_content = ConcatReasoning(Consumed')
       /\ FinishStep =>
             /\ messages' = Append(messages, Last(messages'))
             /\ FieldText(Last(messages'), "content") = ConcatContent(script)
             /\ FieldText(Last(messages'), "reasoning_content") =
                   ConcatReasoning(script)]_vars

\* C22 witness: a message was appended whose content and reasoning each came from
\* two deltas
C22_Witness ==
    /\ pc = "after_loop"
    /\ Len(messages) = 3
    /\ FieldText(messages[3], "content") = "ab"
    /\ FieldText(messages[3], "reasoning_content") = "xy"

\* The tool-call deltas of the fragments in arrival order
RECURSIVE AllDeltas(_)
AllDeltas(F) ==
    IF F = <<>> THEN <<>>
    ELSE (IF Head(F).has_choices THEN Head(F).tool_calls ELSE <<>>)
         \o AllDeltas(Tail(F))

\* The argument deltas tagged with index i, concatenated in arrival order
RECURSIVE ArgsAt(_, _)
ArgsAt(ds, i) ==
    IF ds = <<>> THEN ""
    ELSE (IF Head(ds).index = i THEN DeltaText(Head(ds).function.arguments) ELSE "")
         \o ArgsAt(Tail(ds), i)

\* The last id (with name = FALSE) or name (with name = TRUE) that a delta tagged
\* with index i carried, none when no such delta carried one
RECURSIVE LastAt(_, _, _, _)
LastAt(ds, i, name, none) ==
    IF ds = <<>> THEN none
    ELSE LET d == Head(ds)
             x == IF name THEN d.function.name ELSE d.id
         IN  LastAt(Tail(ds), i, name, IF d.index = i /\ Truthy(x) THEN x ELSE none)

\* The number of builders: one past the highest index seen
SlotCount(ds) ==
    IF ds = <<>> THEN 0
    ELSE 1 + (CHOOSE m \in {ds[j].index : j \in 1..Len(ds)} :
                 \A j \in 1..Len(ds) : ds[j].index <= m)

\* The builder of index i as its own deltas leave it
BuilderAt(ds, i) ==
    [id |-> LastAt(ds, i, FALSE, None), type |-> "function",
     function |-> [name |-> LastAt(ds, i, TRUE, ""), arguments |-> ArgsAt(ds, i)]]

Builders(ds) == [j \in 1..SlotCount(ds) |-> BuilderAt(ds, j - 1)]

\* The indices the deltas of a fragment are tagged with
IndicesOf(chunk) ==
    IF chunk.has_choices
    THEN {chunk.tool_calls[j].index : j \in 1..Len(chunk.tool_calls)}
    ELSE {}

\* C23: while a stream is consumed there is one builder per index up to the highest
\* seen, the builder of index i holds the id, the name and the concatenation in
\* arrival order of the argument deltas tagged with i, and a fragment leaves the
\* builders of the indices it does not carry as they were; the tool calls of the
\* appended message are the builders with an id, with that argument text.
C23_ToolCallBuilders ==
    [][/\ pc = "stream" /\ pc' = "stream" =>
             /\ acc'.tool_calls_data = Builders(AllDeltas(Consumed'))
             /\ \A j \in 1..Len(acc.tool_calls_data) :
                   (j - 1) \notin IndicesOf(Head(stream)) =>
                      acc'.tool_calls_data[j] = acc.tool_calls_data[j]
       /\ FinishStep =>
             ToolCallsOf(Last(messages')) =
                SelectSeq(Builders(AllDeltas(script)), HasId)]_vars

\* C23 witness: a message with two tool calls was assembled from deltas of the
\* indices 0 and 1 that arrived interleaved
C23_Witness ==
    /\ pc = "dispatch"
    /\ Len(messages) = 3
    /\ HasToolCalls(messages[3])
    /\ Len(messages[3].tool_calls) = 2
    /\ messages[3].tool_calls[1].function.arguments = "{}"
    /\ messages[3].tool_calls[2].function.arguments = "[]"

\* The builder received an id
ReceivedId(tc) == tc.id # None /\ tc.id # ""

\* C24: the tool calls of the appended message are exactly the builders that
\* received an id, in their order; a builder without id is neither in the message
\* nor among the calls to dispatch, and every tool-role message appended afterwards
\* answers a call of the message, so none is appended for such a builder.
C24_NoIdDropped ==
    [][/\ FinishStep =>
             /\ ToolCallsOf(Last(messages')) =
                   SelectSeq(acc.tool_calls_data, ReceivedId)
             /\ \A j \in 1..Len(ToolCallsOf(Last(messages'))) :
                   ReceivedId(ToolCallsOf(Last(messages'))[j])
             /\ pending' = ToolCallsOf(Last(messages'))
             /\ pc' = IF pending' = <<>> THEN "after_loop" ELSE "dispatch"
       /\ pc = "dispatch" /\ messages' # messages =>
             /\ messages' = Append(messages, Last(messages'))
             /\ IsTool(Last(messages'))
             /\ Last(messages').tool_call_id = Head(pending).id
             /\ Last(messages').tool_call_id # None]_vars

\* C24 witness: a turn whose builder of index 0 never received an id and whose
\* builder of index 1 did: the message has the second call only, and it was answered
C24_Witness ==
    /\ pc = "estimate"
    /\ Len(messages) = 4
    /\ HasToolCalls(messages[3])
    /\ Len(messages[3].tool_calls) = 1
    /\ messages[3].tool_calls[1].id = "call_2"
    /\ IsTool(messages[4])
    /\ messages[4].tool_call_id = "call_2"

\* C25: the message appended for a stream that brought no content and no reasoning
\* text has no content field, and no assistant message of the conversation ever has
\* a content field that holds the empty string.
C25_NoEmptyContent ==
    [][/\ FinishStep /\ ConcatContent(script) = "" /\ ConcatReasoning(script) = "" =>
             /\ "content" \notin DOMAIN Last(messages')
             /\ "reasoning_content" \notin DOMAIN Last(messages')
       /\ \A i \in 1..Len(messages') :
             IsAssistant(messages'[i]) /\ "content" \in DOMAIN messages'[i] =>
                messages'[i].content # ""]_vars

\* C25 witness: the message appended for a drained stream has the role and nothing
\* else
C25_Witness ==
    /\ pc = "after_loop"
    /\ Len(messages) = 3
    /\ IsAssistant(messages[3])
    /\ DOMAIN messages[3] = {"role"}

\* The message a whole stream F assembles to in one pass
OnePass(F) == ReconstructedMessage(ConsumeAll(EmptyAcc, F))

\* C26: at every split point of a stream, the accumulator left by the fragments
\* consumed so far, fed with the remaining fragments, assembles to the same message
\* (role, content, reasoning, tool calls) as the whole stream consumed in one pass,
\* and that is the message appended when the stream is drained.
C26_SplitInvariance ==
    [][/\ pc' = "stream" =>
             ReconstructedMessage(ConsumeAll(acc', stream')) = OnePass(script')
       /\ FinishStep => Last(messages') = OnePass(script)]_vars

\* C26 witness: a split point inside a tool call, after the fragment that opened
\* its argument text and before the fragment that closes it, with content still to
\* come
C26_Witness ==
    /\ pc = "stream"
    /\ Len(Consumed) = 1
    /\ Len(stream) = 2
    /\ Len(acc.tool_calls_data) = 1
    /\ acc.tool_calls_data[1].function.arguments = "{"
    /\ ArgsAt(AllDeltas(stream), 0) = "}"
    /\ ConcatContent(stream) # ""

\* An iteration starts on the conversation the previous iteration estimated and
\* sent to a model call that failed, so token_count is the estimate of this very
\* conversation; the token check estimates it again and changes nothing
ReEstimateStep ==
    /\ pc = "estimate"
    /\ pc' \in {"backup", "call"}
    /\ sent.iteration = iteration - 1
    /\ sent.messages = messages
    /\ messages' = messages
    /\ clog' = <<>>

\* C27: two consecutive estimates of the same unchanged conversation that both
\* return give the same count, whatever the estimation endpoint answered to each.
C27_IdempotentEstimate ==
    [][ReEstimateStep /\ ~TokenCheckFailed /\ ~TokenCheckFailed' =>
          token_count' = token_count]_vars

\* The API key is unset or empty
KeyAbsent == env.api_key \in {None, ""}

\* C28: in a run without API key the only step is the failure exit taken at
\* startup: the conversation is never built, nothing is estimated, no model call,
\* no dispatch and no checkpoint attempt is made.
C28_MissingKey ==
    [][KeyAbsent =>
          /\ pc = "start"
          /\ pc' = "exit_failure"
          /\ messages' = <<>>
          /\ iteration' = 0
          /\ token_count' = 0
          /\ model_calls' = 0
          /\ tool_turns' = 0
          /\ pending' = <<>>
          /\ clog' = <<>>
          /\ reasons' = {}]_vars

\* C28 witness: a run without API key has exited with the failure status
C28_Witness ==
    /\ env.api_key = None
    /\ pc = "exit_failure"
    /\ model_calls = 0
    /\ messages = <<>>

\* The step of startup that enters the loop
EntersLoop == pc = "start" /\ pc' = "estimate"

NumAssistant(msgs) == Len(SelectSeq(msgs, IsAssistant))

NumTool(msgs) == Len(SelectSeq(msgs, IsTool))

\* C30: while a stream is consumed nothing is appended and no call is pending; the
\* calls of a turn are dispatched only when its stream is drained and its assistant
\* message is in the conversation, before every tool-role message of the turn; an
\* assistant message is appended only for a drained stream, one per stream, and a
\* tool-role message only by the dispatch.
C30_DispatchAfterStream ==
    [][/\ pc' = "stream" => pending' = <<>> /\ messages' = sent'.messages
       /\ pc' = "dispatch" =>
             /\ stream' = <<>>
             /\ acc' = EmptyAcc
             /\ RestOfTurn(messages', pending')
             /\ AnsweredInOrder(messages')
       /\ FinishStep =>
             /\ messages' = Append(sent.messages, Last(messages'))
             /\ IsAssistant(Last(messages'))
       /\ NumAssistant(messages') > NumAssistant(messages) =>
             /\ FinishStep
             /\ NumAssistant(messages') = NumAssistant(messages) + 1
       /\ NumTool(messages') > NumTool(messages) =>
             /\ pc = "dispatch"
             /\ stream = <<>>
             /\ IsTool(Last(messages'))]_vars

\* C30 witness: the first call of a turn with two calls is about to be dispatched,
\* the stream is drained and the assistant message is the last of the conversation
C30_Witness ==
    /\ pc = "dispatch"
    /\ stream = <<>>
    /\ IsAssistant(Last(messages))
    /\ HasToolCalls(Last(messages))
    /\ pending = Last(messages).tool_calls
    /\ Len(pending) = 2
    /\ messages = Append(sent.messages, Last(messages))

\* The textual fields of a message, with their values
TextOf(m) ==
    [k \in DOMAIN m \cap {"content", "reasoning_content", "name", "tool_calls"} |-> m[k]]

\* C31: the messages the token check hands to the estimators carry the same textual
\* fields, with the same text, as the messages the model call of the iteration
\* sends, the reasoning_content of assembled assistant messages included.
C31_EstimateCoversSent ==
    pc = "stream" =>
       \A i \in 1..Len(sent.messages) :
          TextOf(Serializable(sent.messages)[i]) = TextOf(sent.messages[i])

\* The argument text is valid JSON that is not an object
NonObjectArguments(args_str) ==
    LET r == json_loads(args_str)
    IN  ~r.raised /\ r.value.kind # "object"

\* C32: a tool call whose argument text is valid JSON but not an object is
\* dispatched with an empty argument set: nothing is raised, the call is answered by
\* a tool-role message and the turn goes on, whatever the tool.
C32_NonObjectArguments ==
    [][/\ pc = "dispatch"
       /\ pending # <<>>
       /\ NonObjectArguments(Head(pending).function.arguments)
       /\ pc' # "exited"
       => AnswersHead]_vars

\* The step installs a replacement returned by the compressor: in the token check,
\* or in the dispatch of compress_context, where the tool-role message follows it
Replacement ==
    /\ CanCompress(messages, KEEP_RECENT)
    /\ \/ /\ pc = "estimate"
          /\ messages' = CompressedMessages(messages, KEEP_RECENT)
       \/ /\ CompressStep
          /\ messages' = Append(CompressedMessages(messages, KEEP_RECENT), Last(messages'))

\* The compressor log of the iteration has a replacement installed by the dispatch
ToolReplaced(log) ==
    \E i \in 1..Len(log) : log[i].phase = "tool" /\ log[i].result # <<>>

\* msgs is base followed by nothing, or by one assistant message and then at most
\* one tool-role message per tool call of that message
AddedOK(msgs, base) ==
    LET n == Len(msgs) - Len(base)
    IN  /\ n >= 0
        /\ SubSeq(msgs, 1, Len(base)) = base
        /\ n > 0 =>
              /\ IsAssistant(msgs[Len(base) + 1])
              /\ n - 1 <= Len(ToolCallsOf(msgs[Len(base) + 1]))
              /\ \A j \in (Len(base) + 2)..Len(msgs) : IsTool(msgs[j])

\* C33: a step that installs no replacement of the compressor leaves the
\* conversation as it was or appends one message at its end, the first message
\* stays the system message; the appended message is the assistant message of a
\* drained stream, appended to what was sent, or the tool-role message of the call
\* at the head of the turn, which is then used up; so what an iteration adds to the
\* conversation it sent is at most one assistant message followed by at most one
\* tool-role message per tool call of that message.
C33_AppendOnly ==
    [][/\ ~Replacement =>
             /\ messages' \in {messages, Append(messages, Last(messages'))}
             /\ messages'[1] = messages[1]
             /\ messages'[1] = SystemMessage
       /\ ~Replacement /\ messages' # messages =>
             \/ /\ FinishStep
                /\ IsAssistant(Last(messages'))
                /\ messages = sent.messages
                /\ pending' = ToolCallsOf(Last(messages'))
             \/ /\ pc = "dispatch"
                /\ IsTool(Last(messages'))
                /\ Last(messages').tool_call_id = Head(pending).id
                /\ pending' = Tail(pending)
       /\ /\ ~Replacement
          /\ pc \in {"call", "stream", "dispatch"}
          /\ sent'.iteration = iteration
          /\ ~ToolReplaced(clog)
          => AddedOK(messages', sent'.messages)]_vars

\* C33 witness: after a first iteration that appended nothing, the second iteration
\* has added one assistant message with two tool calls and the tool-role messages of
\* both to the conversation it sent
C33_Witness ==
    /\ pc = "estimate"
    /\ iteration = 3
    /\ sent.iteration = 2
    /\ sent.messages = InitialMessages
    /\ Len(messages) = Len(sent.messages) + 3
    /\ IsAssistant(messages[Len(messages) - 2])
    /\ Len(ToolCallsOf(messages[Len(messages) - 2])) = 2
    /\ IsTool(messages[Len(messages) - 1])
    /\ IsTool(Last(messages))
    /\ SubSeq(messages, 1, Len(sent.messages)) = sent.messages

\* The stream indices whose builder received an id
SurvivingIndices(ds) ==
    {i \in 0..(SlotCount(ds) - 1) : LastAt(ds, i, FALSE, None) # None}

\* The stream indices below the highest one that no delta was tagged with
SkippedIndices(ds) ==
    {i \in 0..(SlotCount(ds) - 1) : \A j \in 1..Len(ds) : ds[j].index # i}

\* The j-th smallest element of the set S of integers
NthIndex(S, j) == CHOOSE i \in S : Cardinality({k \in S : k < i}) = j - 1

\* C34: the tool calls of the appended message are the builders that received an
\* id, in ascending order of their stream index, whatever the order in which the
\* indices were opened; the builder of an index that no delta was tagged with is an
\* empty one without id and is not among them; the calls are dispatched in that
\* order.
C34_IndexOrder ==
    [][/\ FinishStep =>
             LET ds == AllDeltas(script)
                 S == SurvivingIndices(ds)
                 calls == ToolCallsOf(Last(messages'))
             IN  /\ Len(calls) = Cardinality(S)
                 /\ \A j \in 1..Len(calls) :
                       /\ calls[j].id = LastAt(ds, NthIndex(S, j), FALSE, None)
                       /\ calls[j].function.arguments = ArgsAt(ds, NthIndex(S, j))
                 /\ \A i \in SkippedIndices(ds) :
                       /\ acc.tool_calls_data[i + 1] = EmptySlot
                       /\ i \notin S
                 /\ pending' = calls
       /\ pc = "dispatch" /\ pc' = "dispatch" =>
             /\ pending' = Tail(pending)
             /\ Last(messages').tool_call_id = Head(pending).id]_vars

\* C34 witness: the stream opened the index 2 before the index 0 and never the
\* index 1; the message has the call of index 0 before the call of index 2, and the
\* call of index 0 was dispatched first
C34_Witness ==
    /\ pc = "dispatch"
    /\ Len(messages) = 4
    /\ ToolCallsOf(messages[3]) =
          <<[id |-> "call_0", type |-> "function",
             function |-> [name |-> "list_files", arguments |-> "{}"]],
            [id |-> "call_3", type |-> "function",
             function |-> [name |-> "list_files", arguments |-> "{}"]]>>
    /\ IsTool(messages[4])
    /\ messages[4].tool_call_id = "call_0"
    /\ Len(pending) = 1
    /\ pending[1].id = "call_3"

\* The stream brought tool-call deltas and none of them an id
DeltasWithoutId(F) ==
    /\ AllDeltas(F) # <<>>
    /\ \A j \in 1..Len(AllDeltas(F)) : AllDeltas(F)[j].id \in {None, ""}

\* C35: the message appended for a stream that brought tool-call deltas and no id
\* has no tool_calls field; no call is left to dispatch, the run reports completed
\* and leaves the loop in the same iteration, and no tool-role message follows.
C35_NoIdNoToolCalls ==
    [][/\ FinishStep /\ DeltasWithoutId(script) =>
             /\ acc.tool_calls_data # <<>>
             /\ IsAssistant(Last(messages'))
             /\ "tool_calls" \notin DOMAIN Last(messages')
             /\ pending' = <<>>
             /\ pc' = "after_loop"
             /\ iteration' = iteration
             /\ "completed" \in reasons'
             /\ tool_turns' = tool_turns
       /\ "completed" \in reasons =>
             /\ pc \in {"after_loop", "done"}
             /\ pc' = "done"
             /\ messages' = messages
             /\ IsAssistant(Last(messages))
             /\ model_calls' = model_calls]_vars

\* C35 witness: the run is over with completed after a stream whose only tool-call
\* delta, in the fragment with the content c, had a name and arguments and no id:
\* the message has the content and no tool calls
C35_Witness ==
    /\ pc = "done"
    /\ reasons = {"completed"}
    /\ iteration = 1
    /\ Len(messages) = 3
    /\ messages[3] = [role |-> "assistant", content |-> "c"]
    /\ tool_turns = 0

\* The tokens a field of a message adds to the local estimate: nothing when the
\* value is empty, the tokens of the names and argument texts of the calls put
\* together for tool_calls, the tokens of the text otherwise, one more for name
FieldCount(m, k) ==
    IF k = "tool_calls"
    THEN (IF Len(m[k]) = 0 THEN 0 ELSE Tokens(ToolCallsText(m[k])))
    ELSE IF m[k] = "" THEN 0
    ELSE Tokens(m[k]) + (IF k = "name" THEN 1 ELSE 0)

\* The sum of FieldCount over the set K of fields of m
RECURSIVE SumFields(_, _)
SumFields(m, K) ==
    IF K = {} THEN 0
    ELSE LET k == CHOOSE x \in K : TRUE
         IN  FieldCount(m, k) + SumFields(m, K \ {k})

\* 3 plus, for each message, 4 plus the counts of its fields
RECURSIVE LocalFormula(_)
LocalFormula(msgs) ==
    IF msgs = <<>> THEN 3
    ELSE 4 + SumFields(Head(msgs), DOMAIN Head(msgs)) + LocalFormula(Tail(msgs))

\* A token check that takes the local estimate
LocalEstimateStep == pc = "estimate" /\ pc' \in {"backup", "call"}

\* C36: the local estimate of the messages handed to it is 3 plus, for each
\* message, 4 plus the tokens of each non-empty field (for tool_calls the tokens of
\* the names and argument texts of the calls put together) plus 1 for a non-empty
\* name; it is at least 3 + 4 times the number of messages, and the estimate of a
\* conversation that grew by appended messages is at least the estimate before plus
\* 4 per appended message.
C36_LocalEstimate ==
    [][LocalEstimateStep =>
          /\ token_count' = LocalFormula(Serializable(messages))
          /\ token_count' >= 3 + 4 * Len(messages)
          /\ SubSeq(messages, 1, Len(sent.messages)) = sent.messages
          /\ token_count = LocalFormula(Serializable(sent.messages))
          /\ token_count' >= token_count + 4 * (Len(messages) - Len(sent.messages))]_vars

\* C36 witness: the token check of the second iteration took the local estimate of
\* a conversation whose last message is the answer to a call with an empty name:
\* 3, then 4 + 6 + 13 and 4 + 4 + 4 for the first two messages, 4 + 9 + 1 for the
\* assistant message with its one call, 4 + 4 + 6 + 22 for the tool-role message
\* whose empty name adds nothing
C36_Witness ==
    /\ pc = "call"
    /\ iteration = 2
    /\ Len(messages) = 4
    /\ messages[3] =
          [role |-> "assistant",
           tool_calls |-> <<[id |-> "call_2", type |-> "function",
                             function |-> [name |-> "", arguments |-> "["]]>>]
    /\ messages[4] =
          [role |-> "tool", tool_call_id |-> "call_2", name |-> "",
           content |-> "Error: Unknown tool ''"]
    /\ token_count = 88

====
